---- MODULE Spec2Model ----
(***************************************************************************)
(* img-uploader (src/app.py): a Flask application that stores every        *)
(* uploaded image as a single-entry ZIP archive <id>.zip in one directory, *)
(* serves it back through /view_image/<id>, and runs a background thread   *)
(* that removes archives older than 24 hours.                              *)
(*                                                                         *)
(* The model has one process per upload request, one per view request     *)
(* (app.run(threaded=True): a thread per request) and the cleanup thread.  *)
(* A process takes one step per access to the shared directory; the code   *)
(* between two accesses works on locals only and is part of the step.      *)
(* File names and identifiers are sequences of one-character strings, file *)
(* contents are sequences of bytes, times are seconds.                     *)
(***************************************************************************)
EXTENDS Integers, Sequences, FiniteSets, TLC

VARIABLES
    now,        \* time.time(), in seconds
    store,      \* the directory UPLOAD_FOLDER: entry name -> file, or NoFile
    up,         \* upload_file: the locals of each upload request
    vw,         \* view_image: the locals of each view request
    sw,         \* cleanup_files: the locals of the cleanup thread
    gone,       \* history: uploads whose archive was removed after they opened it
    clash,      \* history: uploads whose archive another upload wrote during or after theirs
    removals    \* history: number of removals done from outside the program

vars == <<now, store, up, vw, sw, gone, clash, removals>>

----------------------------------------------------------------------------
(* Bounds of the model *)

MaxUploads == 2     \* upload requests
MaxViews == 1       \* view requests
MaxIds == 2         \* identifiers the random source can produce
MaxTicks == 1       \* clock ticks after the start
MaxRemovals == 1    \* removals of an archive from outside the program

Uploads == 1..MaxUploads
Views == 1..MaxViews

----------------------------------------------------------------------------
(* Configuration, src/app.py lines 12-17 *)

ALLOWED_EXTENSIONS ==
    { <<"p","n","g">>, <<"j","p","g">>, <<"j","p","e","g">>,
      <<"g","i","f">>, <<"w","e","b","p">> }

CLEANUP_INTERVAL_HOURS == 1

FILE_EXPIRY_SECONDS == 24 * 60 * 60

----------------------------------------------------------------------------
(* Strings *)

ascii_lowercase ==
    << "a","b","c","d","e","f","g","h","i","j","k","l","m",
       "n","o","p","q","r","s","t","u","v","w","x","y","z" >>

ascii_uppercase ==
    << "A","B","C","D","E","F","G","H","I","J","K","L","M",
       "N","O","P","Q","R","S","T","U","V","W","X","Y","Z" >>

digits == << "0","1","2","3","4","5","6","7","8","9" >>

ascii_letters == ascii_lowercase \o ascii_uppercase

\* str.lower() on one character
LowerChar(c) ==
    IF \E i \in 1..Len(ascii_uppercase) : ascii_uppercase[i] = c
    THEN ascii_lowercase[CHOOSE i \in 1..Len(ascii_uppercase) : ascii_uppercase[i] = c]
    ELSE c

\* str.lower()
lower(s) == [i \in 1..Len(s) |-> LowerChar(s[i])]

\* '.' in s
HasDot(s) == \E i \in 1..Len(s) : s[i] = "."

\* position of the final '.' of s (s has one)
LastDot(s) == CHOOSE i \in 1..Len(s) : s[i] = "." /\ \A j \in (i+1)..Len(s) : s[j] # "."

\* s.rsplit('.', 1)[1]
rsplit1(s) == SubSeq(s, LastDot(s) + 1, Len(s))

\* s.endswith(t)
endswith(s, t) == Len(s) >= Len(t) /\ SubSeq(s, Len(s) - Len(t) + 1, Len(s)) = t

DotZip == <<".","z","i","p">>

Dot == <<".">>

----------------------------------------------------------------------------
(* Helper functions, src/app.py lines 28-36 *)

\* allowed_file without the .lower() of line 31
allowed_file_CaseSensitive(filename) ==
    HasDot(filename) /\ rsplit1(filename) \in ALLOWED_EXTENSIONS

\* allowed_file(filename)
allowed_file(filename) ==
    HasDot(filename) /\ lower(rsplit1(filename)) \in ALLOWED_EXTENSIONS

\* string.ascii_letters + string.digits
chars == ascii_letters \o digits

\* The random source: the indexes that `length` calls of random.choice draw,
\* for one of MaxIds seeds
RandomDraw(seed, length) == [i \in 1..length |-> ((seed * i) % Len(chars)) + 1]

\* line 36 with range(length - 1) for range(length)
IdOfDraw_Short(seed, length) ==
    LET draw == RandomDraw(seed, length) IN [i \in 1..(length - 1) |-> chars[draw[i]]]

\* ''.join(random.choice(chars) for _ in range(length)) under one seed
IdOfDraw(seed, length) ==
    LET draw == RandomDraw(seed, length) IN [i \in 1..length |-> chars[draw[i]]]

\* generate_random_id(length): the identifiers a call can return
generate_random_id(length) == { IdOfDraw(seed, length) : seed \in 1..MaxIds }

----------------------------------------------------------------------------
(* Files and archives *)

NoFile == [mtime |-> -1, valid |-> FALSE, entries |-> <<>>]

\* A file that zipfile cannot open: zero-length, or cut off before the central
\* directory is written, or written over by two writers at once.
BadZip(t) == [mtime |-> t, valid |-> FALSE, entries |-> <<>>]

\* the archive when line 107, file_stream.seek(0), is left out: the bytes
\* after the signature that Image.open has read
ZipArchive_NoSeek(t, name, data) ==
    [mtime |-> t, valid |-> TRUE,
     entries |-> << [name |-> name, data |-> SubSeq(data, 3, Len(data))] >>]

\* line 109 with zip_filename for image_in_zip_name: the entry is named
\* <id>.zip
ZipArchive_ZipEntryName(t, name, data) ==
    [mtime |-> t, valid |-> TRUE,
     entries |-> << [name |-> SubSeq(name, 1, 8) \o <<".","z","i","p">>, data |-> data] >>]

\* zipfile.ZipFile(path, 'w') ... zf.writestr(name, data) ... close
ZipArchive(t, name, data) ==
    [mtime |-> t, valid |-> TRUE, entries |-> << [name |-> name, data |-> data] >>]

\* zipfile.ZipFile(path, 'w') closed with no entry written
EmptyArchive(t) == [mtime |-> t, valid |-> TRUE, entries |-> <<>>]

\* Image.open: PIL recognises an image by its leading signature bytes
\* (PNG 89 50, JPEG FF D8, GIF 47 49, RIFF/WEBP 52 49).
ImageSignatures == { <<137, 80>>, <<255, 216>>, <<71, 73>>, <<82, 73>> }

\* line 103 with the signature test left out: any bytes pass
ImageOpens_AnyBytes(data) == Len(data) >= 2

\* line 103: Image.open(file_stream) raises on bytes it does not recognise
ImageOpens(data) == Len(data) >= 2 /\ SubSeq(data, 1, 2) \in ImageSignatures

----------------------------------------------------------------------------
(* Inputs *)

PngBytes == <<137, 80, 1>>
JpegBytes == <<255, 216, 2>>
TextBytes == <<104, 105>>

Upload(filename, data) == [filename |-> filename, data |-> data]

\* the uploaded files: a.PNG and b.c.jpg that are images, a.PNG that is
\* text, and images named gif, x.bmp, a.png. and with the empty name
Requests ==
    { Upload(<<"a",".","P","N","G">>, PngBytes),
      Upload(<<"b",".","c",".","j","p","g">>, JpegBytes),
      Upload(<<"a",".","P","N","G">>, TextBytes),
      Upload(<<"g","i","f">>, PngBytes),
      Upload(<<"x",".","b","m","p">>, PngBytes),
      Upload(<<"a",".","p","n","g",".">>, PngBytes),
      Upload(<<>>, PngBytes) }

Ids == generate_random_id(8)

ZipName(id) == id \o DotZip

\* a directory entry that is no archive
OtherEntry == <<"i","n","d","e","x",".","h","t","m","l">>

DirNames == { ZipName(id) : id \in Ids } \cup { OtherEntry }

\* the clock starts one sweep interval after the retention window
StartTime == FILE_EXPIRY_SECONDS + CLEANUP_INTERVAL_HOURS * 60 * 60

\* the modification time of the archive that an earlier run left in the
\* directory under the identifier of draw `seed`: 0, one hour, two hours, ...
\* (at the start the first is older than the retention window, the second
\* exactly as old, the others younger)
OldTime(seed) == (seed - 1) * CLEANUP_INTERVAL_HOURS * 60 * 60

TickSeconds == CLEANUP_INTERVAL_HOURS * 60 * 60

----------------------------------------------------------------------------
(* Locals of the request handlers and of the cleanup thread *)

\* jsonify(...), status of upload_file; status 0: no response yet
UploadResponse(status, error, filename, url) ==
    [status |-> status, error |-> error, filename |-> filename, url |-> url]

NoUploadResponse == UploadResponse(0, "", <<>>, <<>>)

\* the error texts of upload_file (lines 76, 81, 121, 123)
ErrNoFilePart == "No file part"
ErrNoSelectedFile == "No selected file"
ErrTypeNotAllowed == "file type not allowed"
ErrInvalidOrServer == "invalid image file or server error"

\* url_for('view_image', random_id=random_id, _external=True)
url_for_view_image(random_id) == <<"/","v","i","e","w","_","i","m","a","g","e","/">> \o random_id

\* fd: "none", "linked" (the open file is the directory's entry), "shared"
\* (another writer has the same file open), "orphan" (the entry was removed
\* while the file was open), "closed"
IdleUpload ==
    [pc |-> "idle", filename |-> <<>>, data |-> <<>>, file_ext |-> <<>>,
     random_id |-> <<>>, fd |-> "none", resp |-> NoUploadResponse]

\* the response of view_image: (body, status) or send_file(buffer, mimetype)
ViewResponse(status, text, mimetype, data) ==
    [status |-> status, text |-> text, mimetype |-> mimetype, data |-> data]

NoViewResponse == ViewResponse(0, "", <<>>, <<>>)

\* the texts of view_image (lines 132, 139, 161, 163)
TextNotFound == "image not found or expired"
TextEmptyZip == "empty ZIP archive"
TextBadZip == "invalid ZIP archive"
TextLoadError == "error loading image"

NoEntry == [name |-> <<>>, data |-> <<>>]

\* fd: "none", "linked", "orphan" (entry removed while open: the data stays
\* readable), "dirty" (the file was written over while open)
IdleView ==
    [pc |-> "idle", random_id |-> <<>>, fd |-> "none", entry |-> NoEntry,
     mimetype |-> <<>>, seen |-> {}, resp |-> NoViewResponse]

\* pc "Idle": in time.sleep or before the first cycle; "list": in the try
\* block, before os.listdir; "scan": in the for
\* loop, before os.path.getmtime of the next entry; "remove": before
\* os.remove(filepath).  error: an exception ended the last cycle.  puts is
\* history of the cycle under way: an upload wrote to the directory during it.
IdleSweeper ==
    [pc |-> "Idle", cutoff_time |-> 0, listing |-> {}, filename |-> <<>>,
     error |-> FALSE, puts |-> FALSE]

\* an archive an earlier run of the program left behind
OldArchive(id, t) == ZipArchive(t, id \o Dot \o <<"p","n","g">>, PngBytes)

\* lines 23-24: the directory as os.makedirs creates it, with the static
\* entry only
EmptyFolder == [f \in DirNames |-> IF f = OtherEntry THEN BadZip(0) ELSE NoFile]

\* the directory an earlier run left behind: one archive per identifier
OldFolder ==
    [f \in DirNames |->
        IF f = OtherEntry THEN BadZip(0)
        ELSE LET seed == CHOOSE k \in 1..MaxIds : ZipName(IdOfDraw(k, 8)) = f
             IN OldArchive(IdOfDraw(seed, 8), OldTime(seed))]

Init ==
    /\ now = StartTime
    /\ store \in { EmptyFolder, OldFolder }
    /\ up = [u \in Uploads |-> IdleUpload]
    /\ vw = [v \in Views |-> IdleView]
    /\ sw = IdleSweeper
    /\ gone = {}
    /\ clash = {}
    /\ removals = 0

\* request r of the handlers `reqs` comes in: requests are numbered in the
\* order of their arrival
Arrives(reqs, r) ==
    reqs[r].pc = "idle" /\ (IF r = 1 THEN TRUE ELSE reqs[r - 1].pc # "idle")

----------------------------------------------------------------------------
(* What one process's access to a file does to the others that hold it open *)

\* upload x holds the directory's entry of identifier id open for writing
OpenOn(x, id) ==
    up[x].pc = "open" /\ up[x].random_id = id /\ up[x].fd \in {"linked", "shared"}

\* upload x has created the archive of identifier id
Wrote(x, id) == up[x].random_id = id /\ up[x].fd # "none"

\* a writer truncates or writes the file f: readers that hold it open see the
\* new bytes
ViewsAfterWrite(f) ==
    [v \in Views |->
        IF vw[v].pc = "opened" /\ ZipName(vw[v].random_id) = f /\ vw[v].fd = "linked"
        THEN [vw[v] EXCEPT !.fd = "dirty"] ELSE vw[v]]

\* os.remove(f): the entry goes, the open files stay with their holders
ViewsAfterRemove(f) ==
    [v \in Views |->
        IF vw[v].pc = "opened" /\ ZipName(vw[v].random_id) = f /\ vw[v].fd = "linked"
        THEN [vw[v] EXCEPT !.fd = "orphan"] ELSE vw[v]]

UploadsAfterRemove(f) ==
    [x \in Uploads |->
        IF up[x].pc = "open" /\ ZipName(up[x].random_id) = f
           /\ up[x].fd \in {"linked", "shared"}
        THEN [up[x] EXCEPT !.fd = "orphan"] ELSE up[x]]

GoneAfterRemove(f) ==
    gone \cup { x \in Uploads : up[x].fd # "none" /\ ZipName(up[x].random_id) = f }

\* the cleanup thread's history of the cycle, after a put wrote
SweeperAfterPut == IF sw.pc = "Idle" THEN sw ELSE [sw EXCEPT !.puts = TRUE]

----------------------------------------------------------------------------
(* upload_file, src/app.py lines 71-123 *)

\* lines 75-76: the request has no part named 'file'
UploadNoFilePart(u) ==
    /\ Arrives(up, u)
    /\ up' = [up EXCEPT ![u] = [IdleUpload EXCEPT !.pc = "done",
                  !.resp = UploadResponse(400, ErrNoFilePart, <<>>, <<>>)]]
    /\ UNCHANGED <<now, store, vw, sw, gone, clash, removals>>

\* the locals after a request is turned down with `error`
Rejected(filename, data, file_ext, random_id, error) ==
    [pc |-> "done", filename |-> filename, data |-> data, file_ext |-> file_ext,
     random_id |-> random_id, fd |-> "none",
     resp |-> UploadResponse(400, error, <<>>, <<>>)]

\* lines 78-106: the checks, the identifier, the validation, and
\* zipfile.ZipFile(zip_filepath, 'w'), which creates or truncates the file
UploadOpen(u, filename, data) ==
    /\ Arrives(up, u)
    /\ IF filename = <<>> THEN
          /\ up' = [up EXCEPT ![u] = Rejected(<<>>, <<>>, <<>>, <<>>, ErrNoSelectedFile)]
          /\ UNCHANGED <<store, vw, sw, clash>>
       ELSE IF ~allowed_file(filename) THEN
          /\ up' = [up EXCEPT ![u] = Rejected(filename, <<>>, <<>>, <<>>, ErrTypeNotAllowed)]
          /\ UNCHANGED <<store, vw, sw, clash>>
       ELSE \E random_id \in generate_random_id(8) :
          LET file_ext == lower(rsplit1(filename))
              zip_filename == ZipName(random_id)
              others == { x \in Uploads \ {u} : OpenOn(x, random_id) }
          IN IF ~ImageOpens(data) THEN
                /\ up' = [up EXCEPT ![u] =
                             Rejected(filename, data, file_ext, random_id, ErrInvalidOrServer)]
                /\ UNCHANGED <<store, vw, sw, clash>>
             ELSE
                /\ store' = [store EXCEPT ![zip_filename] = BadZip(now)]
                /\ up' = [x \in Uploads |->
                            IF x = u THEN
                               [pc |-> "open", filename |-> filename, data |-> data,
                                file_ext |-> file_ext, random_id |-> random_id,
                                fd |-> IF others = {} THEN "linked" ELSE "shared",
                                resp |-> NoUploadResponse]
                            ELSE IF x \in others THEN [up[x] EXCEPT !.fd = "shared"]
                            ELSE up[x]]
                /\ vw' = ViewsAfterWrite(zip_filename)
                /\ sw' = SweeperAfterPut
                /\ clash' = clash \cup { x \in Uploads \ {u} : Wrote(x, random_id) }
                                   \cup (IF others = {} THEN {} ELSE {u})
    /\ UNCHANGED <<now, gone, removals>>

\* what lines 107-109 and the end of the with block leave in the file: the
\* archive; with a second writer on the same file, the archive or a mix of
\* both writers' bytes; after an error, a cut-off file or an archive with no
\* entry
WriteResults(u, ok) ==
    LET name == up[u].random_id \o Dot \o up[u].file_ext
        archive == ZipArchive(now, name, up[u].data)
    IN IF ~ok THEN { BadZip(now), EmptyArchive(now) }
       ELSE IF up[u].fd = "shared" THEN { archive, BadZip(now) }
       ELSE { archive }

\* lines 107-121: zf.writestr, the close of the archive and the response;
\* ok = FALSE: the write raises (the except of line 119)
UploadWrite(u, ok) ==
    /\ up[u].pc = "open"
    /\ LET zip_filename == ZipName(up[u].random_id)
           resp == IF ok
                   THEN UploadResponse(200, "", zip_filename,
                                       url_for_view_image(up[u].random_id))
                   ELSE UploadResponse(400, ErrInvalidOrServer, <<>>, <<>>)
       IN /\ up' = [up EXCEPT ![u] = [@ EXCEPT !.pc = "done", !.fd = "closed",
                                                !.resp = resp]]
          /\ IF up[u].fd = "orphan"
             THEN UNCHANGED <<store, vw, sw>>
             ELSE /\ \E file \in WriteResults(u, ok) :
                       store' = [store EXCEPT ![zip_filename] = file]
                  /\ vw' = ViewsAfterWrite(zip_filename)
                  /\ sw' = SweeperAfterPut
    /\ UNCHANGED <<now, gone, clash, removals>>

----------------------------------------------------------------------------
(* view_image, src/app.py lines 125-163 *)

ImageSlash == <<"i","m","a","g","e","/">>

\* lines 145-147 without the special case of line 146
MimeType_NoJpeg(file_ext) == ImageSlash \o file_ext

\* lines 145-147 with the special case on jpeg instead of jpg
MimeType_OnJpeg(file_ext) ==
    IF file_ext = <<"j","p","e","g">> THEN ImageSlash \o <<"j","p","g">>
    ELSE ImageSlash \o file_ext

\* lines 145-147
MimeType(file_ext) ==
    IF file_ext = <<"j","p","g">> THEN ImageSlash \o <<"j","p","e","g">>
    ELSE ImageSlash \o file_ext

Finished(v, resp) ==
    [vw[v] EXCEPT !.pc = "done", !.fd = "none", !.entry = NoEntry,
                  !.mimetype = <<>>, !.seen = {}, !.resp = resp]

\* lines 128-135 with the test of lines 131-132 left out
ViewExists_NoCheck(v, random_id) ==
    /\ Arrives(vw, v)
    /\ vw' = [vw EXCEPT ![v] = [@ EXCEPT !.random_id = random_id, !.pc = "exists"]]
    /\ UNCHANGED <<now, store, up, sw, gone, clash, removals>>

\* lines 128-132: os.path.exists(zip_filepath).  seen is history: the
\* uploads that had returned this identifier when the request came in.
ViewExists(v, random_id) ==
    /\ Arrives(vw, v)
    /\ LET seen == { u \in Uploads : up[u].pc = "done" /\ up[u].resp.status = 200
                                       /\ up[u].random_id = random_id }
           began == [vw[v] EXCEPT !.random_id = random_id, !.seen = seen]
       IN IF store[ZipName(random_id)] = NoFile
          THEN vw' = [vw EXCEPT ![v] = [began EXCEPT !.pc = "done", !.seen = {},
                         !.resp = ViewResponse(404, TextNotFound, <<>>, <<>>)]]
          ELSE vw' = [vw EXCEPT ![v] = [began EXCEPT !.pc = "exists"]]
    /\ UNCHANGED <<now, store, up, sw, gone, clash, removals>>

\* lines 134-144: the response when the archive cannot be opened or its
\* first name has no extension; NoViewResponse when lines 135-147 pass
OpenError(file) ==
    IF file = NoFile THEN
       \* FileNotFoundError, caught at line 162
       ViewResponse(500, TextLoadError, <<>>, <<>>)
    ELSE IF ~file.valid THEN
       \* zipfile.BadZipFile, line 160
       ViewResponse(500, TextBadZip, <<>>, <<>>)
    ELSE IF file.entries = <<>> THEN
       ViewResponse(500, TextEmptyZip, <<>>, <<>>)
    ELSE IF ~HasDot(file.entries[1].name) THEN
       \* IndexError on rsplit(...)[1], caught at line 162
       ViewResponse(500, TextLoadError, <<>>, <<>>)
    ELSE NoViewResponse

\* lines 141-147: the MIME type from the first name of the archive
MimeOfArchive(file) == MimeType(lower(rsplit1(file.entries[1].name)))

\* lines 134-147: zipfile.ZipFile(zip_filepath, 'r') reads the central
\* directory; namelist, the first name and the MIME type
ViewOpen(v) ==
    /\ vw[v].pc = "exists"
    /\ LET file == store[ZipName(vw[v].random_id)]
       IN IF OpenError(file) # NoViewResponse THEN
             vw' = [vw EXCEPT ![v] = Finished(v, OpenError(file))]
          ELSE
             vw' = [vw EXCEPT ![v] = [@ EXCEPT !.pc = "opened", !.fd = "linked",
                                              !.entry = file.entries[1],
                                              !.mimetype = MimeOfArchive(file)]]
    /\ UNCHANGED <<now, store, up, sw, gone, clash, removals>>

\* lines 150-158: zf.read(image_in_zip) and send_file.  On a file written
\* over since it was opened the read finds other bytes than the central
\* directory describes (BadZipFile or EOFError), unless the same entry was
\* written again.
ViewRead(v) ==
    /\ vw[v].pc = "opened"
    /\ LET file == store[ZipName(vw[v].random_id)]
           readable == \/ vw[v].fd \in {"linked", "orphan"}
                       \/ /\ vw[v].fd = "dirty"
                          /\ file.valid
                          /\ file.entries = << vw[v].entry >>
       IN IF readable
          THEN vw' = [vw EXCEPT ![v] =
                        Finished(v, ViewResponse(200, "", vw[v].mimetype, vw[v].entry.data))]
          ELSE vw' = [vw EXCEPT ![v] =
                        Finished(v, ViewResponse(500, TextBadZip, <<>>, <<>>))]
    /\ UNCHANGED <<now, store, up, sw, gone, clash, removals>>

\* view_image(random_id) run alone on the directory dir: lines 128-158 with
\* no other thread in between
view_image(dir, random_id) ==
    LET file == dir[ZipName(random_id)]
    IN IF file = NoFile THEN ViewResponse(404, TextNotFound, <<>>, <<>>)
       ELSE IF OpenError(file) # NoViewResponse THEN OpenError(file)
       ELSE ViewResponse(200, "", MimeOfArchive(file), file.entries[1].data)

----------------------------------------------------------------------------
(* cleanup_files, src/app.py lines 40-62 *)

\* line 55 with <= for <
Expired_Le(file_mtime, cutoff_time) == file_mtime <= cutoff_time

\* line 55
Expired(file_mtime, cutoff_time) == file_mtime < cutoff_time

\* the pc after the entry in hand: the for loop goes on, or ends and the
\* thread sleeps
AfterEntry(rest) ==
    IF rest = {} THEN IdleSweeper ELSE [sw EXCEPT !.pc = "scan", !.listing = rest, !.filename = <<>>]

\* the exception when the try statement is around the while loop instead of
\* inside it: the thread ends
SweepFailed_ThreadEnds == [IdleSweeper EXCEPT !.pc = "ended", !.error = TRUE]

\* lines 58-62: an exception leaves the for loop; the thread sleeps
SweepFailed == [IdleSweeper EXCEPT !.error = TRUE]

\* lines 49-50 with the test of line 50 left out
ZipListing_AllNames == { f \in DirNames : store[f] # NoFile }

\* lines 49-50: the names of os.listdir(UPLOAD_FOLDER) that pass the test
\* filename.endswith('.zip'); the loop does nothing with the other names
ZipListing == { f \in DirNames : store[f] # NoFile /\ endswith(f, DotZip) }

\* lines 42-46: the cutoff of the cycle
SweepStart ==
    /\ sw.pc = "Idle"
    /\ sw' = [IdleSweeper EXCEPT !.pc = "list", !.cutoff_time = now - FILE_EXPIRY_SECONDS]
    /\ UNCHANGED <<now, store, up, vw, gone, clash, removals>>

\* line 49: os.listdir(UPLOAD_FOLDER) returns the names (ok), or raises
\* OSError inside the try block
SweepList(ok) ==
    /\ sw.pc = "list"
    /\ sw' = IF ok THEN AfterEntry(ZipListing) ELSE SweepFailed
    /\ UNCHANGED <<now, store, up, vw, gone, clash, removals>>

\* lines 49-55: the next name of the listing (in any order),
\* os.path.getmtime and the comparison with the cutoff
SweepStat(filename) ==
    /\ sw.pc = "scan"
    /\ filename \in sw.listing
    /\ LET rest == sw.listing \ {filename}
       IN IF store[filename] = NoFile THEN
             \* FileNotFoundError from os.path.getmtime
             sw' = SweepFailed
          ELSE IF Expired(store[filename].mtime, sw.cutoff_time) THEN
             sw' = [sw EXCEPT !.pc = "remove", !.listing = rest, !.filename = filename]
          ELSE
             sw' = AfterEntry(rest)
    /\ UNCHANGED <<now, store, up, vw, gone, clash, removals>>

\* lines 56-57: os.remove(filepath) removes the file (ok), or raises
\* FileNotFoundError on an absent file, or another OSError (the entry is
\* not permitted to be removed)
SweepRemove(ok) ==
    /\ sw.pc = "remove"
    /\ IF store[sw.filename] = NoFile \/ ~ok THEN
          /\ sw' = SweepFailed
          /\ UNCHANGED <<store, up, vw, gone>>
       ELSE
          /\ store' = [store EXCEPT ![sw.filename] = NoFile]
          /\ up' = UploadsAfterRemove(sw.filename)
          /\ vw' = ViewsAfterRemove(sw.filename)
          /\ gone' = GoneAfterRemove(sw.filename)
          /\ sw' = AfterEntry(sw.listing)
    /\ UNCHANGED <<now, clash, removals>>

----------------------------------------------------------------------------
(* The environment *)

\* time passes
Tick ==
    /\ now < StartTime + MaxTicks * TickSeconds
    /\ now' = now + TickSeconds
    /\ UNCHANGED <<store, up, vw, sw, gone, clash, removals>>

\* an archive is removed from outside the program (the directory is an
\* ordinary one under static/): what makes os.path.getmtime and os.remove
\* of a listed entry raise
ExternalRemove(f) ==
    /\ removals < MaxRemovals
    /\ endswith(f, DotZip)
    /\ store[f] # NoFile
    /\ removals' = removals + 1
    /\ store' = [store EXCEPT ![f] = NoFile]
    /\ up' = UploadsAfterRemove(f)
    /\ vw' = ViewsAfterRemove(f)
    /\ gone' = GoneAfterRemove(f)
    /\ UNCHANGED <<now, sw, clash>>

----------------------------------------------------------------------------

Next ==
    \/ \E u \in Uploads : UploadNoFilePart(u)
    \/ \E u \in Uploads, req \in Requests : UploadOpen(u, req.filename, req.data)
    \/ \E u \in Uploads, ok \in BOOLEAN : UploadWrite(u, ok)
    \/ \E v \in Views, random_id \in Ids : ViewExists(v, random_id)
    \/ \E v \in Views : ViewOpen(v)
    \/ \E v \in Views : ViewRead(v)
    \/ SweepStart
    \/ \E ok \in BOOLEAN : SweepList(ok)
    \/ \E filename \in DirNames : SweepStat(filename)
    \/ \E ok \in BOOLEAN : SweepRemove(ok)
    \/ Tick
    \/ \E f \in DirNames : ExternalRemove(f)

Spec == Init /\ [][Next]_vars

\* the archive that an upload of an image named with extension ext left
\* under identifier id at time t (lines 86-109)
ArchiveOf(id, ext, t) == ZipArchive(t, id \o Dot \o ext, PngBytes)

\* the directories an earlier run can have left: under each identifier no
\* file, or the archive of an upload with one of the allowed extensions
UploadedFolders ==
    { [f \in DirNames |-> IF f = OtherEntry THEN BadZip(0) ELSE files[f]] :
         files \in [ { ZipName(id) : id \in Ids } ->
                       {NoFile} \cup { ArchiveOf(id, ext, StartTime) :
                                          id \in Ids, ext \in ALLOWED_EXTENSIONS } ] }

\* the start over a directory with uploads of every allowed extension
ViewerInit ==
    /\ now = StartTime
    /\ store \in { dir \in UploadedFolders :
                      \A id \in Ids : dir[ZipName(id)] # NoFile
                          => SubSeq(dir[ZipName(id)].entries[1].name, 1, 8) = id }
    /\ up = [u \in Uploads |-> IdleUpload]
    /\ vw = [v \in Views |-> IdleView]
    /\ sw = IdleSweeper
    /\ gone = {}
    /\ clash = {}
    /\ removals = 0

\* the views alone
ViewerNext ==
    \/ \E v \in Views, random_id \in Ids : ViewExists(v, random_id)
    \/ \E v \in Views : ViewOpen(v)
    \/ \E v \in Views : ViewRead(v)

ViewerSpec == ViewerInit /\ [][ViewerNext]_vars

\* The cleanup thread with the uploads, without the views: the views never
\* write the directory or the thread's locals
SweeperNext ==
    \/ \E u \in Uploads : UploadNoFilePart(u)
    \/ \E u \in Uploads, req \in Requests : UploadOpen(u, req.filename, req.data)
    \/ \E u \in Uploads, ok \in BOOLEAN : UploadWrite(u, ok)
    \/ SweepStart
    \/ \E ok \in BOOLEAN : SweepList(ok)
    \/ \E filename \in DirNames : SweepStat(filename)
    \/ \E ok \in BOOLEAN : SweepRemove(ok)
    \/ Tick
    \/ \E f \in DirNames : ExternalRemove(f)

\* The daemon thread of line 168 is scheduled as long as the process runs:
\* time.sleep returns, and os.listdir, os.path.getmtime and os.remove return
\* or raise
SweeperSpec ==
    /\ Init
    /\ [][SweeperNext]_vars
    /\ WF_vars(SweepStart)
    /\ WF_vars(\E ok \in BOOLEAN : SweepList(ok))
    /\ WF_vars(\E filename \in DirNames : SweepStat(filename))
    /\ WF_vars(\E ok \in BOOLEAN : SweepRemove(ok))

----------------------------------------------------------------------------
(* Properties *)

\* the MIME type of extension e, as the specification gives it
mime(e) ==
    IF e = <<"j","p","g">> THEN <<"i","m","a","g","e","/","j","p","e","g">>
    ELSE <<"i","m","a","g","e","/">> \o e

\* the extension of an uploaded file name: lowercased, after the final '.'
ExtensionOf(filename) == lower(rsplit1(filename))

\* the uploads that have returned 200 with an identifier
Succeeded == { u \in Uploads : up[u].pc = "done" /\ up[u].resp.status = 200 }

\* the step in which view request v returns its response
ViewReturns(v) == vw[v].pc # "done" /\ vw'[v].pc = "done"

\* the uploads that had returned the identifier of view request v when v came in
SeenBy(v) ==
    IF vw[v].pc = "idle"
    THEN { u \in Succeeded : up[u].random_id = vw'[v].random_id }
    ELSE vw[v].seen

\* what a view of the archive of upload u is to return
RoundTrip(u) == ViewResponse(200, "", mime(ExtensionOf(up[u].filename)), up[u].data)

\* C1, as claimed: a view that comes in after an upload has returned its
\* identifier, and returns before any removal of that archive, returns 200
\* with the uploaded bytes and the MIME type of the upload's extension.
C1_Original ==
    [][\A v \in Views, u \in Uploads :
          (ViewReturns(v) /\ u \in SeenBy(v) /\ u \notin gone)
             => vw'[v].resp = RoundTrip(u)]_vars

\* C1, amended: the same, provided no other upload that generated the same
\* identifier has written the archive during or after this upload.
C1_RoundTrip ==
    [][\A v \in Views, u \in Uploads :
          (ViewReturns(v) /\ u \in SeenBy(v) /\ u \notin gone /\ u \notin clash)
             => vw'[v].resp = RoundTrip(u)]_vars

\* a view has returned the JPEG bytes of an upload named b.c.jpg as image/jpeg
C1_Witness ==
    \E v \in Views, u \in Succeeded :
        /\ u \notin gone /\ u \notin clash
        /\ up[u].filename = <<"b",".","c",".","j","p","g">>
        /\ up[u].data = JpegBytes
        /\ vw[v].pc = "done"
        /\ vw[v].random_id = up[u].random_id
        /\ vw[v].resp = ViewResponse(200, "", <<"i","m","a","g","e","/","j","p","e","g">>,
                                     JpegBytes)

\* C2, as claimed: when all the uploads that came in have succeeded and no
\* archive was removed, each has its own archive file (as many files as
\* uploads) and a view of each identifier returns the bytes of that upload.
C2_Original ==
    ((\A u \in Uploads : up[u].pc # "idle" => u \in Succeeded) /\ gone = {})
       => /\ Cardinality({ ZipName(up[u].random_id) : u \in Succeeded })
                = Cardinality(Succeeded)
          /\ \A u \in Succeeded : view_image(store, up[u].random_id) = RoundTrip(u)

\* C2, amended: an upload that succeeded, whose identifier no other upload
\* generated and whose archive was not removed, has its archive in the
\* directory, and a view of its identifier returns its bytes, whatever the
\* other uploads do.
C2_NoCrossTalk ==
    \A u \in Succeeded :
        (u \notin gone /\ \A x \in Uploads \ {u} : up[x].random_id # up[u].random_id)
           => /\ store[ZipName(up[u].random_id)] # NoFile
              /\ view_image(store, up[u].random_id) = RoundTrip(u)

\* two uploads with different identifiers and different bytes have succeeded
\* and each archive holds the bytes of its own upload
C2_Witness ==
    \E u \in Succeeded, x \in Succeeded :
        /\ up[u].random_id # up[x].random_id
        /\ up[u].data = PngBytes /\ up[x].data = JpegBytes
        /\ gone = {}
        /\ view_image(store, up[u].random_id) = RoundTrip(u)
        /\ view_image(store, up[x].random_id) = RoundTrip(x)

----------------------------------------------------------------------------
(* The cleanup thread *)

\* the archives of the directory dir
Archives(dir) == { f \in DirNames : endswith(f, DotZip) /\ dir[f] # NoFile }

\* a step of the cleanup thread (the handlers change no more than its history)
SweeperSteps == sw'.pc # sw.pc \/ sw'.listing # sw.listing

\* the step that ends a sweep cycle
CycleEnds == sw.pc # "Idle" /\ sw'.pc = "Idle"

\* C3, as claimed: when os.path.getmtime or os.remove of one entry fails in
\* a cycle during which no upload writes, the cycle still examines the other
\* entries, so that at its end no archive older than its cutoff is left.
C3_Original ==
    [][(CycleEnds /\ sw.pc # "list" /\ sw'.error /\ ~sw.puts)
          => \A f \in Archives(store') : store'[f].mtime >= sw.cutoff_time]_vars

\* C4: the cutoff of a cycle is the time at its start less the retention
\* window; in a cycle during which no upload writes, a step of the cleanup
\* thread changes no file except that it removes an archive whose
\* modification time is strictly less than the cutoff; and when such a cycle
\* ends without an error, no archive older than the cutoff is left.
C4_SweepThreshold ==
    [][/\ (sw.pc = "Idle" /\ sw'.pc # "Idle")
             => sw'.cutoff_time = now - FILE_EXPIRY_SECONDS
       /\ (SweeperSteps /\ ~sw.puts)
             => \A f \in DirNames :
                   \/ store'[f] = store[f]
                   \/ /\ endswith(f, DotZip)
                      /\ store[f] # NoFile
                      /\ store[f].mtime < sw.cutoff_time
                      /\ store'[f] = NoFile
       /\ (CycleEnds /\ ~sw'.error /\ ~sw.puts)
             => \A f \in Archives(store') : store'[f].mtime >= sw.cutoff_time]_vars

\* after one cycle at the start time, with no error, no upload and no removal
\* from outside, the archive older than the cutoff is gone and the archive
\* whose modification time equals the cutoff is there and can be viewed
C4_Witness ==
    \E a \in Ids, b \in Ids :
        /\ OldFolder[ZipName(a)].mtime < StartTime - FILE_EXPIRY_SECONDS
        /\ OldFolder[ZipName(b)].mtime = StartTime - FILE_EXPIRY_SECONDS
        /\ now = StartTime
        /\ sw.pc = "Idle" /\ ~sw.error
        /\ removals = 0
        /\ \A u \in Uploads : up[u].pc = "idle"
        /\ store[ZipName(a)] = NoFile
        /\ store[ZipName(b)] = OldFolder[ZipName(b)]
        /\ view_image(store, b).status = 200

\* C8, as claimed: when the archive that os.remove is called on is absent,
\* no error is raised and the cycle goes on as after a removal.
C8_Original ==
    [][(sw.pc = "remove" /\ store[sw.filename] = NoFile /\ SweeperSteps)
          => (~sw'.error /\ sw' = AfterEntry(sw.listing))]_vars

\* C9: the cleanup thread is again and again asleep and again and again in a
\* sweep cycle, whatever raises in the cycles.
C9_NoTerminalState == []<>(sw.pc = "Idle") /\ []<>(sw.pc # "Idle")

\* the thread is asleep after a cycle that an exception ended
C9_Witness == sw.pc = "Idle" /\ sw.error

----------------------------------------------------------------------------
(* The checks of upload_file *)

\* the extensions the specification allows
AllowList ==
    { <<"p","n","g">>, <<"j","p","g">>, <<"j","p","e","g">>, <<"g","i","f">>,
      <<"w","e","b","p">> }

\* the filename has no '.' or its lowercased part after the last '.' is not
\* in the allow-list
NotListed(filename) == ~HasDot(filename) \/ ExtensionOf(filename) \notin AllowList

\* upload u comes in with a file that has a name
NamedArrives(u) == up[u].pc = "idle" /\ up'[u].pc # "idle" /\ up'[u].filename # <<>>

\* C5: an upload with an allowed extension whose bytes are no image returns
\* 400 with the invalid-image error in the step that reads the bytes, and
\* that step leaves every file of the directory as it was.
C5_InvalidImage ==
    [][\A u \in Uploads :
          (NamedArrives(u) /\ ~NotListed(up'[u].filename) /\ up'[u].data = TextBytes)
             => /\ up'[u].pc = "done"
                /\ up'[u].resp = UploadResponse(400, ErrInvalidOrServer, <<>>, <<>>)
                /\ store' = store]_vars

\* the upload of text named a.PNG has returned 400 with no archive under the
\* identifier it generated
C5_Witness ==
    \E u \in Uploads :
        /\ up[u].pc = "done"
        /\ up[u].filename = <<"a",".","P","N","G">>
        /\ up[u].data = TextBytes
        /\ up[u].resp = UploadResponse(400, ErrInvalidOrServer, <<>>, <<>>)
        /\ store = EmptyFolder

\* C10, as claimed: a named upload whose extension is not listed is rejected
\* with 400, creates no file and generates no identifier, and the rejection of
\* a name with no '.' carries another error than that of a name with an
\* unlisted extension.
C10_Original ==
    \A u \in Uploads, x \in Uploads :
        (/\ up[u].pc = "done" /\ up[u].filename # <<>> /\ ~HasDot(up[u].filename)
         /\ up[x].pc = "done" /\ HasDot(up[x].filename) /\ NotListed(up[x].filename))
           => /\ up[u].resp.status = 400 /\ up[x].resp.status = 400
              /\ up[u].random_id = <<>> /\ up[x].random_id = <<>>
              /\ up[u].resp.error # up[x].resp.error

\* C10, amended: a named upload whose extension is not listed, with or
\* without a '.' in the name, returns 400 with the one error of line 123,
\* generates no identifier and changes no file; a name whose extension is
\* listed in any case of letters does not get that error.
C10_ExtensionGate ==
    [][\A u \in Uploads :
          NamedArrives(u)
             => IF NotListed(up'[u].filename)
                THEN /\ up'[u].pc = "done"
                     /\ up'[u].resp = UploadResponse(400, ErrTypeNotAllowed, <<>>, <<>>)
                     /\ up'[u].random_id = <<>>
                     /\ store' = store
                ELSE up'[u].resp.error # ErrTypeNotAllowed]_vars

\* an upload named gif and an upload named x.bmp have both been rejected with
\* the same error
C10_Witness ==
    \E u \in Uploads, x \in Uploads :
        /\ up[u].pc = "done" /\ up[u].filename = <<"g","i","f">>
        /\ up[x].pc = "done" /\ up[x].filename = <<"x",".","b","m","p">>
        /\ up[u].resp = UploadResponse(400, ErrTypeNotAllowed, <<>>, <<>>)
        /\ up[x].resp = up[u].resp
        /\ store = EmptyFolder

----------------------------------------------------------------------------
(* Views that run while the archive is removed or written *)

\* C6, as claimed: with no removal from outside, a view of an archive that an
\* earlier run stored and no upload has written returns the image or 404,
\* whatever the cleanup thread does meanwhile.
C6_Original ==
    [][\A v \in Views :
          (/\ ViewReturns(v)
           /\ removals = 0
           /\ \A u \in Uploads : up[u].random_id # vw'[v].random_id)
             => \/ vw'[v].resp = ViewResponse(404, TextNotFound, <<>>, <<>>)
                \/ vw'[v].resp = ViewResponse(200, "", mime(<<"p","n","g">>), PngBytes)]_vars

\* C7, as claimed: a view that returns while one upload is writing the
\* archive of its identifier returns 200 or 404.
C7_Original ==
    [][\A v \in Views, u \in Uploads :
          (/\ ViewReturns(v)
           /\ up[u].pc = "open" /\ up[u].fd = "linked"
           /\ up[u].random_id = vw'[v].random_id)
             => vw'[v].resp.status \in {200, 404}]_vars

----------------------------------------------------------------------------
(* The error returns of view_image *)

\* a step of view v
ViewSteps(v) == vw'[v].pc # vw[v].pc

\* the file is zero-length or no archive, or an archive with no entry
Damaged(file) == file # NoFile /\ (~file.valid \/ file.entries = <<>>)

\* C11: a view that finds no file under its identifier returns 404 at once;
\* a view that opens a file that is no archive or an archive with no entry
\* returns 500; neither returns a body, and no step of a view changes a file.
C11_RetrievalErrors ==
    [][\A v \in Views :
          ViewSteps(v)
             => /\ store' = store
                /\ (vw[v].pc = "idle" /\ store[ZipName(vw'[v].random_id)] = NoFile)
                      => vw'[v].resp = ViewResponse(404, TextNotFound, <<>>, <<>>)
                /\ (vw[v].pc = "exists" /\ Damaged(store[ZipName(vw[v].random_id)]))
                      => /\ vw'[v].pc = "done"
                         /\ vw'[v].resp.status = 500
                         /\ vw'[v].resp.data = <<>>]_vars

\* a view of an archive with no entry has returned 500
C11_Witness ==
    \E v \in Views :
        /\ vw[v].pc = "done"
        /\ vw[v].resp = ViewResponse(500, TextEmptyZip, <<>>, <<>>)
        /\ store[ZipName(vw[v].random_id)].valid
        /\ store[ZipName(vw[v].random_id)].entries = <<>>

----------------------------------------------------------------------------
(* What an upload leaves in the directory *)

\* upload u returns
UploadReturns(u) == up[u].pc # "done" /\ up'[u].pc = "done"

\* no other upload has generated the identifier id
OnlyUser(u, id) == \A x \in Uploads \ {u} : up[x].random_id # id

\* C12, as claimed: when an upload returns an error and no other upload has
\* generated its identifier, no cut-off or empty file is in the directory
\* under that identifier.
C12_Original ==
    [][\A u \in Uploads :
          (/\ UploadReturns(u)
           /\ up'[u].resp.status # 200
           /\ up'[u].random_id # <<>>
           /\ OnlyUser(u, up'[u].random_id))
             => ~Damaged(store'[ZipName(up'[u].random_id)])]_vars

\* C13, as claimed: the archive that an upload has closed, under an
\* identifier no other upload has generated, holds exactly one entry, named
\* by the identifier and a lowercased extension of the allow-list.
C13_Original ==
    \A u \in Uploads :
        LET id == up[u].random_id
            file == store[ZipName(id)]
        IN (up[u].pc = "done" /\ up[u].fd = "closed" /\ OnlyUser(u, id) /\ file.valid)
              => /\ Len(file.entries) = 1
                 /\ \E ext \in AllowList : file.entries[1].name = id \o Dot \o ext

----------------------------------------------------------------------------
(* Identifiers *)

\* the characters A-Z, a-z and 0-9
Alnum ==
    { "A", "B", "C", "D", "E", "F", "G", "H", "I", "J", "K", "L", "M",
      "N", "O", "P", "Q", "R", "S", "T", "U", "V", "W", "X", "Y", "Z",
      "a", "b", "c", "d", "e", "f", "g", "h", "i", "j", "k", "l", "m",
      "n", "o", "p", "q", "r", "s", "t", "u", "v", "w", "x", "y", "z",
      "0", "1", "2", "3", "4", "5", "6", "7", "8", "9" }

\* id is 8 characters of A-Z, a-z, 0-9
WellFormedId(id) == Len(id) = 8 /\ \A i \in 1..Len(id) : id[i] \in Alnum

\* C14: every character an identifier is drawn from is one of A-Z, a-z, 0-9;
\* every identifier an upload has generated is 8 such characters; and an
\* upload that returns 200 reports the file name <identifier>.zip, under
\* which its archive is in the directory unless it was removed meanwhile.
C14_IdentifierFormat ==
    [][/\ \A i \in 1..Len(chars) : chars[i] \in Alnum
       /\ \A u \in Uploads :
             /\ up'[u].random_id # <<>> => WellFormedId(up'[u].random_id)
             /\ (UploadReturns(u) /\ up'[u].resp.status = 200)
                   => /\ up'[u].resp.filename = up'[u].random_id \o <<".","z","i","p">>
                      /\ up[u].fd # "orphan"
                            => store'[up'[u].resp.filename] # NoFile]_vars

\* an upload has returned 200 with the name of the archive it wrote, made
\* of its 8-character identifier and .zip
C14_Witness ==
    \E u \in Succeeded :
        /\ WellFormedId(up[u].random_id)
        /\ Len(up[u].resp.filename) = 12
        /\ SubSeq(up[u].resp.filename, 1, 8) = up[u].random_id
        /\ store[up[u].resp.filename] = ZipArchive(now, up[u].random_id \o <<".","p","n","g">>, PngBytes)

----------------------------------------------------------------------------
(* The cleanup thread among the uploads *)

\* C15, as claimed: whatever the uploads do meanwhile, an archive that the
\* cleanup thread removes has, at the removal, a modification time strictly
\* less than the cutoff of the cycle.
C15_Original ==
    [][\A f \in DirNames :
          (SweeperSteps /\ store[f] # NoFile /\ store'[f] = NoFile)
             => store[f].mtime < sw.cutoff_time]_vars

\* C16: an upload creates or truncates the file of its identifier whether or
\* not a file is there; and when an upload that alone has the file open
\* returns 200 under the identifier of an earlier successful upload, the
\* response names that identifier, the archive has the time of this write,
\* and a view returns this upload's bytes and type, not the earlier ones.
C16_CollisionOverwrites ==
    [][\A u \in Uploads :
          /\ (up[u].pc = "idle" /\ up'[u].pc = "open")
                => store'[ZipName(up'[u].random_id)].mtime = now
          /\ \A x \in Succeeded \ {u} :
                (/\ UploadReturns(u)
                 /\ up'[u].resp.status = 200
                 /\ up[u].fd = "linked"
                 /\ up[x].random_id = up[u].random_id)
                   => /\ up'[u].resp.filename = ZipName(up[x].random_id)
                      /\ store'[ZipName(up[u].random_id)].mtime = now
                      /\ view_image(store', up[u].random_id) = RoundTrip(u)
                      /\ up[x].data # up[u].data
                            => view_image(store', up[x].random_id).data # up[x].data]_vars

\* two uploads have succeeded under the same identifier, a PNG and then a
\* JPEG, and a view of the identifier returns the JPEG
C16_Witness ==
    \E u \in Succeeded, x \in Succeeded :
        /\ u # x
        /\ up[u].random_id = up[x].random_id
        /\ x \in clash
        /\ up[x].data = PngBytes /\ up[u].data = JpegBytes
        /\ store[ZipName(up[u].random_id)].mtime = now
        /\ view_image(store, up[x].random_id) = RoundTrip(u)

----------------------------------------------------------------------------
(* Eviction *)

\* the archive f is in the directory, older than the retention window
ExpiredPresent(f) == store[f] # NoFile /\ store[f].mtime < now - FILE_EXPIRY_SECONDS

\* os.listdir returns the listing
ListsOk == sw.pc = "list" /\ sw'.pc # "list" /\ ~sw'.error

\* os.remove of f raises
FailsOn(f) == sw.pc = "remove" /\ sw.filename = f /\ sw'.pc = "Idle" /\ sw'.error

\* C17, as claimed: while the listing succeeds again and again, an archive
\* that is older than the retention window and is not rewritten is deleted
\* in the end, whatever errors other entries raise in every cycle: it stays
\* for ever only if its own removal raises again and again.
C17_Original ==
    \A f \in { ZipName(id) : id \in Ids } :
        (<>[]ExpiredPresent(f) /\ []<><<ListsOk>>_vars) => []<><<FailsOn(f)>>_vars

----------------------------------------------------------------------------
(* The content type *)

\* the content type of each extension of the allow-list, as the
\* specification gives it
MimeTable(ext) ==
    CASE ext = <<"p","n","g">> -> <<"i","m","a","g","e","/","p","n","g">>
      [] ext = <<"j","p","g">> -> <<"i","m","a","g","e","/","j","p","e","g">>
      [] ext = <<"j","p","e","g">> -> <<"i","m","a","g","e","/","j","p","e","g">>
      [] ext = <<"g","i","f">> -> <<"i","m","a","g","e","/","g","i","f">>
      [] ext = <<"w","e","b","p">> -> <<"i","m","a","g","e","/","w","e","b","p">>
      [] OTHER -> <<>>

\* C18: a view that returns 200 returns the content type that the table
\* gives for the lowercased extension of the first entry of the archive it
\* opened, for every extension of the allow-list.
C18_MimeDerivation ==
    [][\A v \in Views :
          (vw[v].pc = "opened" /\ ViewReturns(v) /\ vw'[v].resp.status = 200)
             => /\ ExtensionOf(vw[v].entry.name) \in AllowList
                /\ vw'[v].resp.mimetype = MimeTable(ExtensionOf(vw[v].entry.name))
                /\ vw'[v].resp.data = vw[v].entry.data]_vars

\* a view of an archive whose entry is named <id>.jpeg has returned
\* image/jpeg
C18_Witness ==
    \E v \in Views :
        /\ vw[v].pc = "done"
        /\ vw[v].resp = ViewResponse(200, "", <<"i","m","a","g","e","/","j","p","e","g">>, PngBytes)
        /\ store[ZipName(vw[v].random_id)].entries
              = << [name |-> vw[v].random_id \o <<".","j","p","e","g">>, data |-> PngBytes] >>

----------------------------------------------------------------------------
(* The frame of the cleanup thread *)

\* the name ends in .zip
IsZipName(f) == Len(f) >= 4 /\ SubSeq(f, Len(f) - 3, Len(f)) = <<".","z","i","p">>

\* C19: a step of the cleanup thread leaves every file of the directory as
\* it is, except that it may remove a file whose name ends in .zip; a file
\* with another name stays, whatever its modification time.
C19_SweeperFrame ==
    [][SweeperSteps
          => \A f \in DirNames :
                \/ store'[f] = store[f]
                \/ /\ IsZipName(f)
                   /\ store[f] # NoFile
                   /\ store'[f] = NoFile]_vars

\* after a cycle that removed the archive older than the cutoff and kept the
\* other archive, the file index.html, which is older than the cutoff too,
\* is in the directory as before
C19_Witness ==
    \E a \in Ids, b \in Ids :
        /\ sw.pc = "Idle"
        /\ removals = 0
        /\ \A u \in Uploads : up[u].pc = "idle"
        /\ store[ZipName(b)] = OldArchive(b, OldTime(2))
        /\ OldFolder[ZipName(a)] # NoFile
        /\ store[ZipName(a)] = NoFile
        /\ ~IsZipName(OtherEntry)
        /\ store[OtherEntry] = OldFolder[OtherEntry]
        /\ store[OtherEntry].mtime < now - FILE_EXPIRY_SECONDS

====
